---- MODULE Spec2Model ----
(***************************************************************************)
(* Model of frappe/core/doctype/communication/communication.py: the        *)
(* timeline links of a Communication (add_link, remove_link,               *)
(* deduplicate_dynamic_links), the two circular-link checks                *)
(* (validate_circular_links, validate_reference) and save/validate.        *)
(*                                                                         *)
(* A document is a record [name, reference_doctype, reference_name,        *)
(* dynamic_links]; dynamic_links is a sequence of rows                      *)
(* [link_doctype, link_name].  `doc` is the Communication in memory (self), *)
(* `db` the stored Communications by name.  Fields of a Communication that *)
(* no link or reference operation reads (subject, user, status, ...) are   *)
(* not part of the state.                                                  *)
(***************************************************************************)
EXTENDS Integers, Sequences, FiniteSets, TLC

VARIABLES
    doc,        \* self: the Communication in memory
    db,         \* the record store: name -> stored Communication
    pc,         \* "idle", or in validate_reference: "while" (at the loop test), "body"
    parent,     \* the loop variable `doc` of validate_reference (a stored name)
    task,       \* what runs the validation in progress: "validate" or "save"
    outcome,    \* how the last operation ended: "pass", an error, or "running"
    last,       \* the last operation called and its arguments
    before,     \* doc.dynamic_links when the last operation was called
    save_calls  \* ignore_permissions of each self.save() the last operation made

vars == <<doc, db, pc, parent, task, outcome, last, before, save_calls>>

----------------------------------------------------------------------------
(* Bounds *)

\* longest dynamic_links sequence add_link may build in the link specification
MaxLinks == 3
\* dynamic link rows, over the document in memory and the other stored
\* Communications together, in the circular-link specification
MaxRows == 4

Names == {"A", "B", "C", "D"}
SelfName == "A"

\* the (link_doctype, link_name) pairs the link operations are called with
LinkPairs == {<<"Communication", "A">>, <<"Communication", "B">>, <<"Lead", "A">>}

\* the pairs of the circular-link specification: a Communication link to each
\* stored Communication, and one link that is not of type Communication
CircPairs == {<<"Communication", n>> : n \in Names} \cup {<<"Lead", "A">>}

\* doctypes whose meta says istable (child tables)
ChildTables == {"Has Role"}

----------------------------------------------------------------------------
(* Documents *)

Row(link_doctype, link_name) ==
    [link_doctype |-> link_doctype, link_name |-> link_name]

NewDoc(name) ==
    [name |-> name, reference_doctype |-> "", reference_name |-> "",
     dynamic_links |-> <<>>]

NoOp == [op |-> "none", link_doctype |-> "", link_name |-> "", autosave |-> FALSE]

RemoveAt(s, i) == SubSeq(s, 1, i - 1) \o SubSeq(s, i + 1, Len(s))

Pair(l) == <<l.link_doctype, l.link_name>>

PairsOf(links) == [i \in 1..Len(links) |-> Pair(links[i])]

InSeq(x, s) == \E i \in 1..Len(s) : s[i] = x

----------------------------------------------------------------------------
(* remove_link: `for l in self.dynamic_links: if match: remove(l)`.  The   *)
(* list iterator keeps an index; it is advanced after every element, also  *)
(* after one that was removed (the list then is one shorter).              *)

RECURSIVE remove_link_loop(_, _, _, _)
remove_link_loop(links, i, link_doctype, link_name) ==
    IF i > Len(links) THEN links
    ELSE IF links[i].link_doctype = link_doctype /\ links[i].link_name = link_name
         THEN remove_link_loop(RemoveAt(links, i), i + 1, link_doctype, link_name)
         ELSE remove_link_loop(links, i + 1, link_doctype, link_name)

----------------------------------------------------------------------------
(* deduplicate_dynamic_links *)

\* the for loop: links (the tuples seen, in order) and the duplicate flag
RECURSIVE dedup_scan(_, _, _, _)
dedup_scan(dynamic_links, i, links, duplicate) ==
    IF i > Len(dynamic_links) THEN [links |-> links, duplicate |-> duplicate]
    ELSE LET t == Pair(dynamic_links[i]) IN
         IF ~InSeq(t, links)
         THEN dedup_scan(dynamic_links, i + 1, Append(links, t), duplicate)
         ELSE dedup_scan(dynamic_links, i + 1, links, TRUE)

\* self.append("dynamic_links", {...}) of add_link
append_link(dynamic_links, link_doctype, link_name) ==
    Append(dynamic_links, Row(link_doctype, link_name))

\* `for l in links: self.add_link(l[0], l[1])` on the emptied list
RECURSIVE dedup_rebuild(_, _, _)
dedup_rebuild(links, i, dynamic_links) ==
    IF i > Len(links) THEN dynamic_links
    ELSE dedup_rebuild(links, i + 1, append_link(dynamic_links, links[i][1], links[i][2]))

DedupOnePass(dynamic_links) ==
    IF \E i \in 1..Len(dynamic_links) : \E j \in 1..(i - 1) :
            Pair(dynamic_links[j]) = Pair(dynamic_links[i])
    THEN LET i == CHOOSE i \in 1..Len(dynamic_links) :
                    /\ \E j \in 1..(i - 1) : Pair(dynamic_links[j]) = Pair(dynamic_links[i])
                    /\ \A k \in 1..(i - 1) : \A j \in 1..(k - 1) :
                            Pair(dynamic_links[j]) /= Pair(dynamic_links[k])
         IN RemoveAt(dynamic_links, i)
    ELSE dynamic_links

RECURSIVE DedupKeepLastScan(_, _, _)
DedupKeepLastScan(dynamic_links, i, links) ==
    IF i > Len(dynamic_links) THEN links
    ELSE LET t == Pair(dynamic_links[i]) IN
         IF \E j \in (i + 1)..Len(dynamic_links) : Pair(dynamic_links[j]) = t
         THEN DedupKeepLastScan(dynamic_links, i + 1, links)
         ELSE DedupKeepLastScan(dynamic_links, i + 1, Append(links, t))

DedupKeepLast(dynamic_links) ==
    dedup_rebuild(DedupKeepLastScan(dynamic_links, 1, <<>>), 1, <<>>)

deduplicate(dynamic_links) ==
    IF dynamic_links /= <<>>
    THEN LET r == dedup_scan(dynamic_links, 1, <<>>, FALSE) IN
         IF r.duplicate THEN dedup_rebuild(r.links, 1, <<>>) ELSE dynamic_links
    ELSE dynamic_links

----------------------------------------------------------------------------
(* The record store *)

NoDoc == NewDoc("")

\* frappe.get_doc(doctype, name): the stored record.  db holds the
\* Communications; a record of another doctype is one with that name and no
\* timeline links of its own.
get_doc(doctype, name) ==
    IF doctype = "Communication"
    THEN IF name \in DOMAIN db THEN db[name] ELSE NoDoc
    ELSE NewDoc(name)

\* get_timeline_parent_doc: `return parent_doc if parent_doc else None`.  With
\* an empty link_doctype or link_name the Python leaves parent_doc unbound and
\* the return raises UnboundLocalError; every row of the model carries both, so
\* the ELSE below is never evaluated.
get_timeline_parent_doc(link_doctype, link_name) ==
    IF link_doctype /= "" /\ link_name /= ""
    THEN get_doc(link_doctype, link_name)
    ELSE NoDoc

\* frappe.core.utils.get_parent_doc: the record the reference link names
get_parent_doc(d) == get_doc(d.reference_doctype, d.reference_name)

----------------------------------------------------------------------------
(* validate_circular_links.  Each loop is an operator over the index of   *)
(* the row it is at; circular_linking is the flag of the same name.       *)

\* the level 2 loop with one more level unrolled: it also follows the rows of
\* the record reached at the third hop
RECURSIVE level_2_loop_deeper(_, _, _, _)
level_2_loop_deeper(self, links, k, circular_linking) ==
    IF k > Len(links) THEN circular_linking
    ELSE IF links[k].link_doctype = "Communication"
         THEN LET circular_level_3 ==
                      get_timeline_parent_doc(links[k].link_doctype, links[k].link_name)
              IN IF /\ circular_level_3 /= NoDoc
                    /\ \/ circular_level_3.name = self.name
                       \/ \E m \in 1..Len(circular_level_3.dynamic_links) :
                              circular_level_3.dynamic_links[m] =
                                  Row("Communication", self.name)
                 THEN TRUE
                 ELSE level_2_loop_deeper(self, links, k + 1, circular_linking)
         ELSE level_2_loop_deeper(self, links, k + 1, circular_linking)

\* `for ref_link in circular_level_2.dynamic_links`: the flag after the loop
RECURSIVE level_2_loop(_, _, _, _)
level_2_loop(self, links, k, circular_linking) ==
    IF k > Len(links) THEN circular_linking
    ELSE IF links[k].link_doctype = "Communication"
         THEN LET circular_level_3 ==
                      get_timeline_parent_doc(links[k].link_doctype, links[k].link_name)
              IN IF circular_level_3 /= NoDoc /\ circular_level_3.name = self.name
                 THEN TRUE      \* circular_linking = True; break
                 ELSE level_2_loop(self, links, k + 1, circular_linking)
         ELSE level_2_loop(self, links, k + 1, circular_linking)

\* the level 1 loop leaving after its first row
level_1_first_row_only(self, links, j, circular_linking) ==
    /\ j <= Len(links)
    /\ links[j].link_doctype = "Communication"
    /\ get_timeline_parent_doc(links[j].link_doctype, links[j].link_name) /= NoDoc
    /\ level_2_loop(self,
                    get_timeline_parent_doc(links[j].link_doctype,
                                            links[j].link_name).dynamic_links,
                    1, circular_linking)

\* `for link in circular_level_1.dynamic_links`: TRUE when frappe.throw is reached
RECURSIVE level_1_loop(_, _, _, _)
level_1_loop(self, links, j, circular_linking) ==
    IF j > Len(links) THEN FALSE
    ELSE LET circular_level_2 ==
                 get_timeline_parent_doc(links[j].link_doctype, links[j].link_name)
             flag == IF links[j].link_doctype = "Communication" /\ circular_level_2 /= NoDoc
                     THEN level_2_loop(self, circular_level_2.dynamic_links, 1, circular_linking)
                     ELSE circular_linking
         IN IF flag THEN TRUE
            ELSE level_1_loop(self, links, j + 1, flag)

\* `for dynamic_link in self.dynamic_links`: TRUE when frappe.throw is reached
RECURSIVE self_links_loop(_, _)
self_links_loop(self, i) ==
    IF i > Len(self.dynamic_links) THEN FALSE
    ELSE LET dynamic_link == self.dynamic_links[i]
             circular_level_1 ==
                 get_timeline_parent_doc(dynamic_link.link_doctype, dynamic_link.link_name)
         IN IF /\ dynamic_link.link_doctype = "Communication"
               /\ circular_level_1 /= NoDoc
               /\ level_1_loop(self, circular_level_1.dynamic_links, 1, FALSE)
            THEN TRUE
            ELSE self_links_loop(self, i + 1)

validate_circular_links(self) ==
    IF self_links_loop(self, 1) THEN "CircularLinkingError" ELSE "pass"

----------------------------------------------------------------------------
(* validate_reference, up to its while loop: the error it throws, "pass", *)
(* or "walk" when the loop is entered.                                    *)

validate_reference_enter(self) ==
    IF self.reference_doctype /= "" /\ self.reference_name /= ""
    THEN IF self.reference_doctype \in ChildTables THEN "ValidationError"
         ELSE IF self.reference_doctype = "Communication" THEN "walk"
         ELSE "pass"
    ELSE "pass"

\* validate(): validate_reference, then defaults for fields outside the model
validate_enter(self) == validate_reference_enter(self)

----------------------------------------------------------------------------
(* Document.save: runs validate and, when it passes, writes self to the   *)
(* store.  `result` is what validation returned.                          *)

Persist(self, result) ==
    IF result = "pass" THEN [db EXCEPT ![self.name] = self] ELSE db

\* the validation that `who` ("validate" or "save") starts on `self`
StartValidation(self, who) ==
    LET r == validate_enter(self) IN
    IF r = "walk"
    THEN /\ pc' = "while"
         /\ parent' = get_parent_doc(self).name
         /\ task' = who
         /\ outcome' = "running"
         /\ db' = db
    ELSE /\ pc' = "idle"
         /\ parent' = parent
         /\ task' = who
         /\ outcome' = r
         /\ db' = IF who = "save" THEN Persist(self, r) ELSE db

\* self.save(ignore_permissions=...)
save(self, ignore_permissions) ==
    /\ save_calls' = <<ignore_permissions>>
    /\ StartValidation(self, "save")

NoSave ==
    /\ save_calls' = <<>>
    /\ outcome' = "pass"
    /\ UNCHANGED <<db, pc, parent, task>>

----------------------------------------------------------------------------
(* Operations *)

\* what the observation variables last and before record of a call
Called(op, link_doctype, link_name, autosave) ==
    /\ last' = [op |-> op, link_doctype |-> link_doctype,
                link_name |-> link_name, autosave |-> autosave]
    /\ before' = doc.dynamic_links

\* add_link that leaves out a row whose pair is already present
AddLinkIfAbsent(link_doctype, link_name, autosave) ==
    LET self == IF <<link_doctype, link_name>> \in {Pair(doc.dynamic_links[i]) :
                                                       i \in 1..Len(doc.dynamic_links)}
                THEN doc
                ELSE [doc EXCEPT !.dynamic_links = append_link(@, link_doctype, link_name)]
    IN
    /\ pc = "idle"
    /\ doc' = self
    /\ Called("add_link", link_doctype, link_name, autosave)
    /\ IF autosave THEN save(self, TRUE) ELSE NoSave

AddLink(link_doctype, link_name, autosave) ==
    LET self == [doc EXCEPT !.dynamic_links = append_link(@, link_doctype, link_name)] IN
    /\ pc = "idle"
    /\ doc' = self
    /\ Called("add_link", link_doctype, link_name, autosave)
    /\ IF autosave THEN save(self, TRUE) ELSE NoSave

RemoveLink(link_doctype, link_name, autosave, ignore_permissions) ==
    LET self == [doc EXCEPT !.dynamic_links =
                     remove_link_loop(@, 1, link_doctype, link_name)] IN
    /\ pc = "idle"
    /\ doc' = self
    /\ Called("remove_link", link_doctype, link_name, autosave)
    /\ IF autosave THEN save(self, ignore_permissions) ELSE NoSave

DeduplicateDynamicLinks ==
    /\ pc = "idle"
    /\ doc' = [doc EXCEPT !.dynamic_links = deduplicate(@)]
    /\ Called("deduplicate_dynamic_links", "", "", FALSE)
    /\ NoSave

ValidateCircularLinks ==
    /\ pc = "idle"
    /\ outcome' = validate_circular_links(doc)
    /\ Called("validate_circular_links", "", "", FALSE)
    /\ save_calls' = <<>>
    /\ UNCHANGED <<doc, db, pc, parent, task>>

Validate ==
    /\ pc = "idle"
    /\ StartValidation(doc, "validate")
    /\ Called("validate", "", "", FALSE)
    /\ save_calls' = <<>>
    /\ UNCHANGED doc

Save ==
    /\ pc = "idle"
    /\ save(doc, FALSE)
    /\ Called("save", "", "", FALSE)
    /\ UNCHANGED doc

\* what ends a validation with `result`: the error or the pass goes to the
\* caller, and a save that passed writes the document
Finish(result) ==
    /\ pc' = "idle"
    /\ outcome' = result
    /\ db' = IF task = "save" THEN Persist(doc, result) ELSE db
    /\ UNCHANGED parent

\* `while doc.reference_doctype == "Communication":`
WhileTest ==
    /\ pc = "while"
    /\ IF db[parent].reference_doctype = "Communication"
       THEN pc' = "body" /\ UNCHANGED <<parent, outcome, db>>
       ELSE Finish("pass")
    /\ UNCHANGED <<doc, task, last, before, save_calls>>

\* the loop body comparing the record it is at, not that record's parent,
\* with self
LoopBodyChecksCurrent ==
    /\ pc = "body"
    /\ IF db[parent].name = doc.name
       THEN Finish("CircularLinkingError")
       ELSE /\ parent' = get_parent_doc(db[parent]).name
            /\ pc' = "while"
            /\ UNCHANGED <<outcome, db>>
    /\ UNCHANGED <<doc, task, last, before, save_calls>>

\* the loop body: `if get_parent_doc(doc).name==self.name: ...; break`, which
\* leads to the frappe.throw after the loop, else `doc = get_parent_doc(doc)`
LoopBody ==
    /\ pc = "body"
    /\ IF get_parent_doc(db[parent]).name = doc.name
       THEN Finish("CircularLinkingError")
       ELSE /\ parent' = get_parent_doc(db[parent]).name
            /\ pc' = "while"
            /\ UNCHANGED <<outcome, db>>
    /\ UNCHANGED <<doc, task, last, before, save_calls>>

----------------------------------------------------------------------------
(* The timeline links of one Communication: a new document "A" and the     *)
(* link operations on it.                                                  *)

Init ==
    /\ doc = NewDoc(SelfName)
    /\ db = [n \in {SelfName} |-> NewDoc(n)]
    /\ pc = "idle"
    /\ parent = SelfName
    /\ task = "validate"
    /\ outcome = "pass"
    /\ last = NoOp
    /\ before = <<>>
    /\ save_calls = <<>>

Next ==
    \/ \E p \in LinkPairs, autosave \in BOOLEAN :
          /\ Len(doc.dynamic_links) < MaxLinks
          /\ AddLink(p[1], p[2], autosave)
    \/ \E p \in LinkPairs, autosave \in BOOLEAN, ignore_permissions \in BOOLEAN :
          RemoveLink(p[1], p[2], autosave, ignore_permissions)
    \/ DeduplicateDynamicLinks

Spec == Init /\ [][Next]_vars

----------------------------------------------------------------------------
(* The circular check over dynamic links: document "A" in memory, and a    *)
(* store whose other Communications carry any rows within the bound.       *)

SeqsUpTo(S, n) == UNION {[1..k -> S] : k \in 0..n}

CircRows == {Row(p[1], p[2]) : p \in CircPairs}

Stored(name, dynamic_links) == [NewDoc(name) EXCEPT !.dynamic_links = dynamic_links]

\* the rows counted against MaxRows
RowCount ==
    Len(doc.dynamic_links) + Len(db["B"].dynamic_links)
        + Len(db["C"].dynamic_links) + Len(db["D"].dynamic_links)

InitCircular ==
    /\ doc = NewDoc(SelfName)
    /\ \E b \in SeqsUpTo(CircRows, MaxRows) :
       \E c \in SeqsUpTo(CircRows, MaxRows - Len(b)) :
       \E d \in SeqsUpTo(CircRows, MaxRows - Len(b) - Len(c)) :
          db = [n \in Names |->
                  CASE n = "B" -> Stored(n, b)
                    [] n = "C" -> Stored(n, c)
                    [] n = "D" -> Stored(n, d)
                    [] OTHER -> NewDoc(n)]
    /\ pc = "idle"
    /\ parent = SelfName
    /\ task = "validate"
    /\ outcome = "pass"
    /\ last = NoOp
    /\ before = <<>>
    /\ save_calls = <<>>

NextCircular ==
    \/ \E p \in CircPairs, autosave \in BOOLEAN :
          /\ RowCount < MaxRows
          /\ AddLink(p[1], p[2], autosave)
    \/ ValidateCircularLinks
    \/ Save

SpecCircular == InitCircular /\ [][NextCircular]_vars

----------------------------------------------------------------------------
(* The circular check over the reference link: document "A" in memory with *)
(* any reference, and a store in which every Communication carries any     *)
(* reference.                                                              *)

Referring(d, reference_doctype, reference_name) ==
    [d EXCEPT !.reference_doctype = reference_doctype,
              !.reference_name = reference_name]

\* the references of a stored Communication: none, another doctype, or a
\* stored Communication
StoredRefs == {<<"", "">>, <<"Lead", "A">>} \cup {<<"Communication", n>> : n \in Names}

\* the document in memory may also be filed against a child table
DocRefs == StoredRefs \cup {<<"Has Role", "A">>}

InitReference ==
    /\ \E r \in DocRefs : doc = Referring(NewDoc(SelfName), r[1], r[2])
    /\ \E refs \in [Names -> StoredRefs] :
          db = [n \in Names |-> Referring(NewDoc(n), refs[n][1], refs[n][2])]
    /\ pc = "idle"
    /\ parent = SelfName
    /\ task = "validate"
    /\ outcome = "pass"
    /\ last = NoOp
    /\ before = <<>>
    /\ save_calls = <<>>

NextReference ==
    \/ Validate
    \/ Save
    \/ WhileTest
    \/ LoopBody

SpecReference == InitReference /\ [][NextReference]_vars

\* a running loop keeps running: the interpreter takes its next step
FairSpecReference == SpecReference /\ WF_vars(WhileTest) /\ WF_vars(LoopBody)

----------------------------------------------------------------------------
(* Properties *)

Range(s) == {s[i] : i \in 1..Len(s)}

FirstIndex(s, x) == CHOOSE i \in 1..Len(s) : s[i] = x /\ \A j \in 1..(i - 1) : s[j] /= x

\* the names the Communication-type rows of `links` point to
CommTargets(links) ==
    {links[i].link_name : i \in {j \in 1..Len(links) : links[j].link_doctype = "Communication"}}

StoredTargets(name) == CommTargets(db[name].dynamic_links)

\* some path self -> b -> c -> self through Communication-type rows: the first
\* hop in self's rows in memory, the others in the stored rows of b and c
ThreeHops(self) ==
    \E b \in CommTargets(self.dynamic_links) :
        \E c \in StoredTargets(b) : self.name \in StoredTargets(c)

\* the same with self, b and c three different records
ThreeHopCycle(self) ==
    \E b \in CommTargets(self.dynamic_links) \ {self.name} :
        \E c \in StoredTargets(b) \ {self.name, b} : self.name \in StoredTargets(c)

To(name) == Row("Communication", name)

\* C1: after remove_link(t, n) returns, dynamic_links has no row whose
\* (link_doctype, link_name) is (t, n), whatever the sequence held before.
C1_RemoveLinkRemovesAll ==
    last.op = "remove_link" =>
        <<last.link_doctype, last.link_name>> \notin Range(PairsOf(doc.dynamic_links))

\* C2: after deduplicate_dynamic_links the pairs of dynamic_links are pairwise
\* different, are exactly the pairs present before, and stand in the order of
\* their first occurrence before.
C2_DedupFirstOccurrences ==
    last.op = "deduplicate_dynamic_links" =>
        LET input == PairsOf(before)
            output == PairsOf(doc.dynamic_links)
        IN /\ \A i, j \in 1..Len(output) : i /= j => output[i] /= output[j]
           /\ Range(output) = Range(input)
           /\ \A i, j \in 1..Len(output) :
                  i < j => FirstIndex(input, output[i]) < FirstIndex(input, output[j])

\* deduplicate_dynamic_links ran on X, Y, X (a duplicate that is not adjacent)
C2_Witness ==
    /\ last.op = "deduplicate_dynamic_links"
    /\ Len(before) = 3
    /\ Pair(before[1]) = Pair(before[3])
    /\ Pair(before[1]) /= Pair(before[2])
    /\ Len(doc.dynamic_links) = 2

\* C7: deduplicate_dynamic_links is idempotent: applied to the sequence it
\* left, it returns that sequence.
C7_DedupIdempotent ==
    last.op = "deduplicate_dynamic_links" =>
        deduplicate(doc.dynamic_links) = doc.dynamic_links

\* deduplicate_dynamic_links ran on X, X, X and left one row
C7_Witness ==
    /\ last.op = "deduplicate_dynamic_links"
    /\ Len(before) = 3
    /\ Pair(before[1]) = Pair(before[2])
    /\ Pair(before[2]) = Pair(before[3])
    /\ Len(doc.dynamic_links) = 1

\* C8: add_link(t, n, autosave) appends the one row (t, n) after the rows that
\* were there, also when (t, n) is among them, and calls save never when
\* autosave is false and once, with ignore_permissions=True, when it is true.
C8_AddLinkAppendsOne ==
    last.op = "add_link" =>
        /\ doc.dynamic_links = Append(before, Row(last.link_doctype, last.link_name))
        /\ save_calls = IF last.autosave THEN <<TRUE>> ELSE <<>>

\* add_link with autosave ran for a pair that was already present
C8_Witness ==
    /\ last.op = "add_link"
    /\ last.autosave
    /\ <<last.link_doctype, last.link_name>> \in Range(PairsOf(before))
    /\ Len(doc.dynamic_links) = Len(before) + 1
    /\ Len(save_calls) = 1

\* C3: validate_circular_links raises CircularLinkingError whenever a path
\* self -> b -> c -> self of Communication-type rows exists, whatever other
\* rows self, b and c carry and wherever the rows of the path stand.
C3_ThreeHopsRaise ==
    (last.op = "validate_circular_links" /\ ThreeHops(doc)) =>
        outcome = "CircularLinkingError"

\* the cycle A -> B -> C -> A was detected with B's link to C standing second,
\* after a link to D
C3_Witness ==
    /\ last.op = "validate_circular_links"
    /\ outcome = "CircularLinkingError"
    /\ doc.dynamic_links = <<To("B")>>
    /\ db["B"].dynamic_links = <<To("D"), To("C")>>
    /\ db["C"].dynamic_links = <<To("A")>>
    /\ db["D"].dynamic_links = <<>>

\* C4: validate_circular_links raises CircularLinkingError when self links to
\* itself or to a record b whose stored rows link back to self.
C4_ShortCyclesRaise ==
    (/\ last.op = "validate_circular_links"
     /\ \/ doc.name \in CommTargets(doc.dynamic_links)
        \/ \E b \in CommTargets(doc.dynamic_links) : doc.name \in StoredTargets(b)) =>
        outcome = "CircularLinkingError"

\* C6: a save (also the one add_link makes with autosave) of a Communication
\* whose dynamic links form a cycle self -> b -> c -> self ends in
\* CircularLinkingError and does not write the document to the store.
C6_SaveRejectsCycle ==
    (pc = "idle" /\ save_calls /= <<>> /\ ThreeHopCycle(doc)) =>
        (outcome = "CircularLinkingError" /\ db[doc.name] /= doc)

\* C9: validate_circular_links passes whenever no path of exactly three hops
\* returns to self; a cycle that closes only at the fourth hop passes.
C9_OnlyThirdHop ==
    (last.op = "validate_circular_links" /\ ~ThreeHops(doc)) => outcome = "pass"

\* the check passed on the cycle A -> B -> C -> D -> A
C9_Witness ==
    /\ last.op = "validate_circular_links"
    /\ outcome = "pass"
    /\ doc.dynamic_links = <<To("B")>>
    /\ db["B"].dynamic_links = <<To("C")>>
    /\ db["C"].dynamic_links = <<To("D")>>
    /\ db["D"].dynamic_links = <<To("A")>>

\* the stored parents of self in walking order, k of them at most: the record
\* self refers to, then the record that one refers to, ... while the
\* reference is to a Communication
RECURSIVE ParentChain(_, _, _)
ParentChain(d, k, chain) ==
    IF k = 0 \/ d.reference_doctype /= "Communication" THEN chain
    ELSE ParentChain(db[d.reference_name], k - 1, Append(chain, d.reference_name))

Parents(self) == ParentChain(self, Cardinality(Names), <<>>)

RefersTo(name, target) ==
    db[name].reference_doctype = "Communication" /\ db[name].reference_name = target

\* following the reference links from self leads back to self
LeadsBack(self) ==
    \E k \in 1..Len(Parents(self)) : RefersTo(Parents(self)[k], self.name)

\* the chain reaches a record whose reference is not to a Communication, and
\* no parent before it refers to self
EndsClear(self) ==
    \E k \in 1..Len(Parents(self)) :
        /\ db[Parents(self)[k]].reference_doctype /= "Communication"
        /\ \A j \in 1..(k - 1) : ~RefersTo(Parents(self)[j], self.name)

\* C5: validate_reference on a Communication that refers to a Communication
\* raises CircularLinkingError when the stored parents' reference links lead
\* back to it, and passes when the chain reaches a record that does not refer
\* to a Communication without meeting it.
C5_ReferenceCheck ==
    (/\ last.op = "validate"
     /\ pc = "idle"
     /\ doc.reference_doctype = "Communication") =>
        /\ LeadsBack(doc) => outcome = "CircularLinkingError"
        /\ EndsClear(doc) => outcome = "pass"

\* validate raised on A -> B -> C -> A
C5_Witness ==
    /\ last.op = "validate"
    /\ pc = "idle"
    /\ outcome = "CircularLinkingError"
    /\ doc.reference_doctype = "Communication" /\ doc.reference_name = "B"
    /\ RefersTo("B", "C")
    /\ RefersTo("C", "A")

\* C10: the while loop of validate_reference ends, whatever the store holds.
C10_WalkTerminates == (pc = "while") ~> (pc = "idle")

====
